---- MODULE Spec2Model ----
(***************************************************************************)
(* The snippets of the Python file handling cheat sheet                    *)
(* (src/file_handling.py), run one at a time as scripts against a disk.    *)
(*                                                                         *)
(* A file is a sequence of bytes (0..255).  A Python str is a sequence of  *)
(* one-character strings; text mode converts between the two with UTF-8.   *)
(* A Python value is a tagged tuple: <<"str", s>>, <<"int", n>>,           *)
(* <<"bool", b>>, <<"None">>, <<"list", xs>>, <<"tuple", xs>>,             *)
(* <<"dict", <<k1, v1>>, ...>> (insertion ordered), <<"set", xs>>.         *)
(***************************************************************************)
EXTENDS Integers, Sequences, FiniteSets, TLC

VARIABLES fs,            \* the disk: file name -> bytes, for the files that exist
          pc,            \* the statement the running snippet is at
          f, f1, f2,     \* the file objects the snippets bind
          data,          \* the variable data
          json_string,   \* the variable json_string
          py_data,       \* the variable py_data
          python_object, \* the variable python_object
          given,         \* the value python_object is bound to when its script starts
          script,        \* the snippet that is running, "none" between two
          flag,          \* what os.path.exists returned
          out,           \* what print has printed, in order
          err            \* the exception that ended the snippet, or "none"

vars == <<fs, pc, f, f1, f2, data, json_string, py_data, python_object, given,
         script, flag, out, err>>

(***************************************************************************)
(* Bounds.                                                                 *)
(***************************************************************************)
MaxLen == 3        \* longest file on the initial disk, in bytes
MaxSize == 40      \* the append snippet is not started on a longer file

(***************************************************************************)
(* Characters and UTF-8.                                                   *)
(***************************************************************************)
\* the characters of codes 32..126 in order ("`" cannot be written in a string here)
Grave == "U+0060"

AsciiChars ==
  << " ", "!", "\"", "#", "$", "%", "&", "'", "(", ")", "*", "+", ",", "-", ".", "/",
     "0", "1", "2", "3", "4", "5", "6", "7", "8", "9", ":", ";", "<", "=", ">", "?",
     "@", "A", "B", "C", "D", "E", "F", "G", "H", "I", "J", "K", "L", "M", "N", "O",
     "P", "Q", "R", "S", "T", "U", "V", "W", "X", "Y", "Z", "[", "\\", "]", "^", "_",
     Grave, "a", "b", "c", "d", "e", "f", "g", "h", "i", "j", "k", "l", "m", "n", "o",
     "p", "q", "r", "s", "t", "u", "v", "w", "x", "y", "z", "{", "|", "}", "~" >>

\* the one two-byte character of the model, U+00E9 (UTF-8: C3 A9)
EAcute == "U+00E9"

Ord(c) ==
  IF c = "\n" THEN 10
  ELSE 31 + (CHOOSE i \in 1..Len(AsciiChars) : AsciiChars[i] = c)

Chr(b) == IF b = 10 THEN "\n" ELSE AsciiChars[b - 31]

Utf8(c) == IF c = EAcute THEN <<195, 169>> ELSE <<Ord(c)>>

\* the sequences of ss one after the other
RECURSIVE Concat(_)
Concat(ss) ==
  IF Len(ss) = 0 THEN <<>>
  ELSE IF Len(ss) = 1 THEN ss[1]
  ELSE LET h == Len(ss) \div 2
       IN Concat(SubSeq(ss, 1, h)) \o Concat(SubSeq(ss, h + 1, Len(ss)))

\* str.encode: the bytes of the characters in order
Encode(s) == Concat([i \in 1..Len(s) |-> Utf8(s[i])])

\* the byte at i cannot be part of a well-formed character: a lead byte
\* without its continuation byte after it, a continuation byte without its
\* lead byte before it, or a byte that is neither of these nor ASCII
Malformed(bs, i) ==
  IF bs[i] = 10 \/ (bs[i] >= 32 /\ bs[i] <= 126) THEN FALSE
  ELSE IF bs[i] = 195 THEN i < Len(bs) /\ bs[i + 1] # 169
  ELSE IF bs[i] = 169 THEN i = 1 \/ bs[i - 1] # 195
  ELSE TRUE

\* the byte at i is a lead byte cut off by the end of the chunk
CutOff(bs, i) == bs[i] = 195 /\ i = Len(bs)

\* the incremental decoder over one chunk: the characters before the first
\* byte it cannot decode, and how the chunk ended
DecodeChunk(bs) ==
  LET stops == {i \in 1..Len(bs) : Malformed(bs, i) \/ CutOff(bs, i)}
      e == IF stops = {} THEN Len(bs) + 1
           ELSE CHOOSE i \in stops : \A j \in stops : i <= j
      piece(i) == IF bs[i] = 169 THEN <<>>
                  ELSE IF bs[i] = 195 THEN <<EAcute>>
                  ELSE <<Chr(bs[i])>>
  IN [chars |-> Concat([i \in 1..(e - 1) |-> piece(i)]),
      end |-> IF e > Len(bs) THEN "clean"
              ELSE IF CutOff(bs, e) THEN "incomplete"
              ELSE "invalid"]

(***************************************************************************)
(* Python values.                                                          *)
(***************************************************************************)
PyStr(s) == <<"str", s>>
PyInt(n) == <<"int", n>>
PyBool(b) == <<"bool", b>>
None == <<"None">>
PyList(xs) == <<"list", xs>>
PyBytes(bs) == <<"bytes", bs>>

(***************************************************************************)
(* File objects.                                                           *)
(***************************************************************************)
NoFile == [name |-> "", mode |-> "", pos |-> 0, buf |-> <<>>, st |-> "unbound"]

Readable(mode) == mode \in {"r", "rb", "r+"}
Binary(mode) == mode \in {"rb", "wb"}

\* the disk with file name holding bytes bs
Put(disk, name, bs) ==
  [n \in DOMAIN disk \cup {name} |-> IF n = name THEN bs ELSE disk[n]]

\* the file object a successful open returns
Opened(name, mode) ==
  [name |-> name, mode |-> mode, pos |-> 0, buf |-> <<>>, st |-> "open"]

\* open for reading that makes the file when it is missing
OpenReadCreates(disk, name, mode) ==
  [fs |-> IF name \in DOMAIN disk THEN disk ELSE Put(disk, name, <<>>),
   err |-> "none", h |-> Opened(name, mode)]

\* "r": read, error if the file is not found
OpenRead(disk, name, mode) ==
  IF name \in DOMAIN disk
  THEN [fs |-> disk, err |-> "none", h |-> Opened(name, mode)]
  ELSE [fs |-> disk, err |-> "FileNotFoundError", h |-> NoFile]

\* open for writing that keeps what the file holds
OpenWriteKeeps(disk, name, mode) ==
  [fs |-> IF name \in DOMAIN disk THEN disk ELSE Put(disk, name, <<>>),
   err |-> "none", h |-> Opened(name, mode)]

\* "w": write, creates a new file or overwrites
OpenWrite(disk, name, mode) ==
  [fs |-> Put(disk, name, <<>>), err |-> "none", h |-> Opened(name, mode)]

\* "a": append, creates the file when it is missing and keeps it otherwise
OpenAppend(disk, name, mode) ==
  [fs |-> IF name \in DOMAIN disk THEN disk ELSE Put(disk, name, <<>>),
   err |-> "none", h |-> Opened(name, mode)]

\* exclusive creation that takes an existing file over
OpenExclusiveOverwrites(disk, name, mode) ==
  [fs |-> Put(disk, name, <<>>), err |-> "none", h |-> Opened(name, mode)]

\* "x": create new, error if the file exists
OpenExclusive(disk, name, mode) ==
  IF name \in DOMAIN disk
  THEN [fs |-> disk, err |-> "FileExistsError", h |-> NoFile]
  ELSE [fs |-> Put(disk, name, <<>>), err |-> "none", h |-> Opened(name, mode)]

\* open(name, mode): the disk afterwards, the file object, the exception
Open(disk, name, mode) ==
  IF Readable(mode) THEN OpenRead(disk, name, mode)
  ELSE IF mode \in {"w", "wb"} THEN OpenWrite(disk, name, mode)
  ELSE IF mode = "a" THEN OpenAppend(disk, name, mode)
  ELSE OpenExclusive(disk, name, mode)

\* the bytes of the file from the object's position on
Rest(disk, h) == SubSeq(disk[h.name], h.pos + 1, Len(disk[h.name]))

\* text f.read(n) and f.read() (n = -1): the whole rest of the file is one
\* chunk for the decoder; a malformed byte anywhere in it is an error, a lead
\* byte cut off by the end of the file is one as soon as the end is needed
ReadText(disk, h, n) ==
  LET d == DecodeChunk(Rest(disk, h))
      k == IF n < 0 \/ n > Len(d.chars) THEN Len(d.chars) ELSE n
      s == SubSeq(d.chars, 1, k)
  IN IF d.end = "invalid" \/ (d.end = "incomplete" /\ (n < 0 \/ n > Len(d.chars)))
     THEN [err |-> "UnicodeDecodeError", val |-> None, h |-> h]
     ELSE [err |-> "none", val |-> PyStr(s),
           h |-> [h EXCEPT !.pos = h.pos + Len(Encode(s))]]

\* the length of the first line of s, its "\n" included
LineLen(s) ==
  LET ends == {i \in 1..Len(s) : s[i] = "\n"}
  IN IF ends = {} THEN Len(s) ELSE CHOOSE i \in ends : \A j \in ends : i <= j

RECURSIVE SplitLines(_)
SplitLines(s) ==
  IF s = <<>> THEN <<>>
  ELSE LET k == LineLen(s)
       IN <<PyStr(SubSeq(s, 1, k))>> \o SplitLines(SubSeq(s, k + 1, Len(s)))

\* f.readline(): up to and including the next "\n", "" at the end of the file
ReadLine(disk, h) ==
  LET d == DecodeChunk(Rest(disk, h))
      k == LineLen(d.chars)
      s == SubSeq(d.chars, 1, k)
      whole == k = 0 \/ s[k] # "\n"
  IN IF d.end = "invalid" \/ (d.end = "incomplete" /\ whole)
     THEN [err |-> "UnicodeDecodeError", val |-> None, h |-> h]
     ELSE [err |-> "none", val |-> PyStr(s),
           h |-> [h EXCEPT !.pos = h.pos + Len(Encode(s))]]

\* f.readlines(): the list of the lines from the position to the end
ReadLines(disk, h) ==
  LET r == ReadText(disk, h, -1)
  IN IF r.err # "none" THEN r
     ELSE [err |-> "none", val |-> PyList(SplitLines(r.val[2])), h |-> r.h]

\* binary f.read(): the bytes from the position to the end
ReadBytes(disk, h) ==
  [err |-> "none", val |-> PyBytes(Rest(disk, h)),
   h |-> [h EXCEPT !.pos = Len(disk[h.name])]]

\* a seek that leaves the position where it is
SeekIgnored(h, n) == h

Tell(h) == h.pos
Seek(h, n) == [h EXCEPT !.pos = n]

\* f.write(v): the str is encoded (text) or the bytes taken as they are
\* (binary) into the object's buffer; nothing reaches the disk yet
Write(h, v) ==
  [h EXCEPT !.buf = h.buf \o (IF Binary(h.mode) THEN v[2] ELSE Encode(v[2]))]

\* a flush that writes at the position of the object in every mode
FlushAtPosition(disk, h) ==
  IF h.st # "open" \/ h.buf = <<>> THEN disk
  ELSE LET old == disk[h.name]
       IN [disk EXCEPT ![h.name] =
             SubSeq(old, 1, h.pos) \o h.buf \o SubSeq(old, h.pos + Len(h.buf) + 1, Len(old))]

\* the buffer written out: at the end of the file in mode "a", at the
\* object's position otherwise
Flush(disk, h) ==
  IF h.st # "open" \/ h.buf = <<>> THEN disk
  ELSE LET old == disk[h.name]
           at == IF h.mode = "a" THEN Len(old) ELSE h.pos
       IN [disk EXCEPT ![h.name] =
             SubSeq(old, 1, at) \o h.buf \o SubSeq(old, at + Len(h.buf) + 1, Len(old))]

\* a close that drops the buffer
CloseWithoutFlush(disk, h, ok) ==
  [fs |-> disk,
   err |-> IF ok \/ h.buf = <<>> THEN "none" ELSE "OSError",
   h |-> IF h.st = "open" THEN [h EXCEPT !.st = "closed", !.buf = <<>>] ELSE h]

\* f.close(), and leaving a with block: the buffer is flushed and the object
\* is closed; when the flush fails (ok = FALSE) the object is closed all the
\* same and OSError is raised
Close(disk, h, ok) ==
  [fs |-> IF ok THEN Flush(disk, h) ELSE disk,
   err |-> IF ok \/ h.buf = <<>> THEN "none" ELSE "OSError",
   h |-> IF h.st = "open" THEN [h EXCEPT !.st = "closed", !.buf = <<>>] ELSE h]

(***************************************************************************)
(* json.dumps with its defaults (separators ", " and ": ", ensure_ascii).  *)
(***************************************************************************)
PyTuple(xs) == <<"tuple", xs>>
PyDict(items) == <<"dict", items>>
PySet(xs) == <<"set", xs>>

Tag(v) == v[1]

RECURSIVE Digits(_)
Digits(n) ==
  IF n < 10 THEN <<Chr(48 + n)>> ELSE Digits(n \div 10) \o <<Chr(48 + (n % 10))>>

IntText(n) == IF n < 0 THEN <<"-">> \o Digits(0 - n) ELSE Digits(n)

\* an escape that lets the backslash through
EscapeCharNoBackslash(c) ==
  IF c = "\"" THEN <<"\\", "\"">>
  ELSE IF c = "\n" THEN <<"\\", "n">>
  ELSE IF c = EAcute THEN <<"\\", "u", "0", "0", "e", "9">>
  ELSE <<c>>

\* one character inside a JSON string
EscapeChar(c) ==
  IF c = "\"" THEN <<"\\", "\"">>
  ELSE IF c = "\\" THEN <<"\\", "\\">>
  ELSE IF c = "\n" THEN <<"\\", "n">>
  ELSE IF c = EAcute THEN <<"\\", "u", "0", "0", "e", "9">>
  ELSE <<c>>

Escape(s) == Concat([i \in 1..Len(s) |-> EscapeChar(s[i])])

Quoted(s) == <<"\"">> \o Escape(s) \o <<"\"">>

TrueText == <<"t", "r", "u", "e">>
FalseText == <<"f", "a", "l", "s", "e">>
NullText == <<"n", "u", "l", "l">>

\* a dict key is written as a string: str as it is, int, bool and None as
\* their JSON text; any other key is a TypeError
KeyOk(k) == Tag(k) \in {"str", "int", "bool", "None"}

KeyText(k) ==
  IF Tag(k) = "str" THEN k[2]
  ELSE IF Tag(k) = "int" THEN IntText(k[2])
  ELSE IF Tag(k) = "bool" THEN (IF k[2] THEN TrueText ELSE FalseText)
  ELSE NullText

RECURSIVE Serializable(_)
Serializable(v) ==
  IF Tag(v) \in {"str", "int", "bool", "None"} THEN TRUE
  ELSE IF Tag(v) \in {"list", "tuple"}
       THEN \A i \in 1..Len(v[2]) : Serializable(v[2][i])
  ELSE IF Tag(v) = "dict"
       THEN \A i \in 1..Len(v[2]) : KeyOk(v[2][i][1]) /\ Serializable(v[2][i][2])
  ELSE FALSE

RECURSIVE DumpsText(_)
RECURSIVE DumpsItems(_)
RECURSIVE DumpsPairs(_)

\* the elements of a list or tuple, ", " between them
DumpsItems(xs) ==
  IF xs = <<>> THEN <<>>
  ELSE DumpsText(Head(xs))
         \o (IF Len(xs) = 1 THEN <<>> ELSE <<",", " ">> \o DumpsItems(Tail(xs)))

\* the items of a dict in insertion order, ": " inside and ", " between them
DumpsPairs(ps) ==
  IF ps = <<>> THEN <<>>
  ELSE Quoted(KeyText(Head(ps)[1])) \o <<":", " ">> \o DumpsText(Head(ps)[2])
         \o (IF Len(ps) = 1 THEN <<>> ELSE <<",", " ">> \o DumpsPairs(Tail(ps)))

DumpsText(v) ==
  IF Tag(v) = "str" THEN Quoted(v[2])
  ELSE IF Tag(v) = "int" THEN IntText(v[2])
  ELSE IF Tag(v) = "bool" THEN (IF v[2] THEN TrueText ELSE FalseText)
  ELSE IF Tag(v) = "None" THEN NullText
  ELSE IF Tag(v) \in {"list", "tuple"} THEN <<"[">> \o DumpsItems(v[2]) \o <<"]">>
  ELSE <<"{">> \o DumpsPairs(v[2]) \o <<"}">>

\* json.dumps(v)
Dumps(v) ==
  IF Serializable(v)
  THEN [err |-> "none", val |-> PyStr(DumpsText(v))]
  ELSE [err |-> "TypeError", val |-> None]

(***************************************************************************)
(* json.loads: the decoder, over the characters of the text.  Numbers      *)
(* are integers; the escapes are those of the characters of the model.     *)
(***************************************************************************)
Fail == [ok |-> FALSE, val |-> None, next |-> 0]
Got(v, i) == [ok |-> TRUE, val |-> v, next |-> i]

DigitChars == {"0", "1", "2", "3", "4", "5", "6", "7", "8", "9"}
Whitespace == {" ", "\n"}

RECURSIVE SkipWs(_, _)
SkipWs(s, i) == IF i <= Len(s) /\ s[i] \in Whitespace THEN SkipWs(s, i + 1) ELSE i

\* the index after the run of digits that starts at i
RECURSIVE DigitRun(_, _)
DigitRun(s, i) == IF i <= Len(s) /\ s[i] \in DigitChars THEN DigitRun(s, i + 1) ELSE i

RECURSIVE NumVal(_)
NumVal(ds) ==
  IF ds = <<>> THEN 0
  ELSE 10 * NumVal(SubSeq(ds, 1, Len(ds) - 1)) + (Ord(ds[Len(ds)]) - 48)

\* -?(0|[1-9][0-9]*) at i
ParseInt(s, i) ==
  LET neg == s[i] = "-"
      j == IF neg THEN i + 1 ELSE i
  IN IF j > Len(s) \/ s[j] \notin DigitChars THEN Fail
     ELSE IF s[j] = "0" THEN Got(PyInt(0), j + 1)
     ELSE LET k == DigitRun(s, j)
              n == NumVal(SubSeq(s, j, k - 1))
          IN Got(PyInt(IF neg THEN 0 - n ELSE n), k)

\* the rest of a string whose opening quote is just before i
RECURSIVE ParseStr(_, _, _)
ParseStr(s, i, acc) ==
  IF i > Len(s) THEN Fail
  ELSE IF s[i] = "\"" THEN Got(PyStr(acc), i + 1)
  ELSE IF s[i] = "\n" THEN Fail
  ELSE IF s[i] = "\\"
       THEN IF i + 1 > Len(s) THEN Fail
            ELSE IF s[i + 1] \in {"\"", "\\", "/"}
                 THEN ParseStr(s, i + 2, Append(acc, s[i + 1]))
            ELSE IF s[i + 1] = "n" THEN ParseStr(s, i + 2, Append(acc, "\n"))
            ELSE IF s[i + 1] = "u" /\ i + 5 <= Len(s)
                      /\ SubSeq(s, i + 2, i + 5) = <<"0", "0", "e", "9">>
                 THEN ParseStr(s, i + 6, Append(acc, EAcute))
            ELSE Fail
  ELSE ParseStr(s, i + 1, Append(acc, s[i]))

\* dict(pairs): a key met again keeps its place and takes the new value
SetItem(items, k, v) ==
  IF \E n \in 1..Len(items) : items[n][1] = k
  THEN [n \in 1..Len(items) |-> IF items[n][1] = k THEN <<k, v>> ELSE items[n]]
  ELSE Append(items, <<k, v>>)

IsAt(s, i, word) == i + Len(word) - 1 <= Len(s) /\ SubSeq(s, i, i + Len(word) - 1) = word

RECURSIVE ParseValue(_, _)
RECURSIVE ParseElems(_, _, _)
RECURSIVE ParseMembers(_, _, _)

\* the elements of an array from i on, i at the first character of one
ParseElems(s, i, acc) ==
  LET r == ParseValue(s, i)
      j == SkipWs(s, r.next)
  IN IF ~r.ok \/ j > Len(s) THEN Fail
     ELSE IF s[j] = "]" THEN Got(PyList(Append(acc, r.val)), j + 1)
     ELSE IF s[j] = "," THEN ParseElems(s, SkipWs(s, j + 1), Append(acc, r.val))
     ELSE Fail

\* the members of an object from i on, i at the quote that opens a key
ParseMembers(s, i, acc) ==
  IF i > Len(s) \/ s[i] # "\"" THEN Fail
  ELSE LET k == ParseStr(s, i + 1, <<>>)
           c == SkipWs(s, k.next)
       IN IF ~k.ok \/ c > Len(s) \/ s[c] # ":" THEN Fail
          ELSE LET r == ParseValue(s, SkipWs(s, c + 1))
                   j == SkipWs(s, r.next)
               IN IF ~r.ok \/ j > Len(s) THEN Fail
                  ELSE IF s[j] = "}"
                       THEN Got(PyDict(SetItem(acc, k.val, r.val)), j + 1)
                  ELSE IF s[j] = ","
                       THEN ParseMembers(s, SkipWs(s, j + 1), SetItem(acc, k.val, r.val))
                  ELSE Fail

\* the value that starts at i
ParseValue(s, i) ==
  IF i > Len(s) THEN Fail
  ELSE IF s[i] = "\"" THEN ParseStr(s, i + 1, <<>>)
  ELSE IF s[i] = "{"
       THEN LET j == SkipWs(s, i + 1)
            IN IF j <= Len(s) /\ s[j] = "}" THEN Got(PyDict(<<>>), j + 1)
               ELSE ParseMembers(s, j, <<>>)
  ELSE IF s[i] = "["
       THEN LET j == SkipWs(s, i + 1)
            IN IF j <= Len(s) /\ s[j] = "]" THEN Got(PyList(<<>>), j + 1)
               ELSE ParseElems(s, j, <<>>)
  ELSE IF IsAt(s, i, NullText) THEN Got(None, i + 4)
  ELSE IF IsAt(s, i, TrueText) THEN Got(PyBool(TRUE), i + 4)
  ELSE IF IsAt(s, i, FalseText) THEN Got(PyBool(FALSE), i + 5)
  ELSE ParseInt(s, i)

\* json.loads(v) for a str v: one value, whitespace around it, nothing else
Loads(v) ==
  LET s == v[2]
      r == ParseValue(s, SkipWs(s, 1))
  IN IF r.ok /\ SkipWs(s, r.next) = Len(s) + 1
     THEN [err |-> "none", val |-> r.val]
     ELSE [err |-> "JSONDecodeError", val |-> None]

\* v[key]
Subscript(v, key) ==
  IF Tag(v) # "dict" THEN [err |-> "TypeError", val |-> None]
  ELSE IF \E n \in 1..Len(v[2]) : v[2][n][1] = key
       THEN [err |-> "none",
             val |-> v[2][CHOOSE n \in 1..Len(v[2]) : v[2][n][1] = key][2]]
       ELSE [err |-> "KeyError", val |-> None]

(***************************************************************************)
(* The literals of the snippets.                                           *)
(***************************************************************************)
MyFile == "myfile.txt"
TableFile == "file.txt"
PicFile == "pic.jpg"
CopyFile == "copy.jpg"
JsonFile == "data.json"
HelloLine == <<"H", "e", "l", "l", "o", " ", "P", "y", "t", "h", "o", "n", "!", "\n">>
EasyLine == <<"F", "i", "l", "e", " ", "h", "a", "n", "d", "l", "i", "n", "g", " ",
              "i", "s", " ", "e", "a", "s", "y">>
AppendedLine == <<"\n", "T", "h", "i", "s", " ", "l", "i", "n", "e", " ", "i", "s", " ",
                  "a", "p", "p", "e", "n", "d", "e", "d", ".">>
ExistsText == <<"F", "i", "l", "e", " ", "e", "x", "i", "s", "t", "s">>
MissingText == <<"F", "i", "l", "e", " ", "d", "o", "e", "s", " ", "n", "o", "t", " ",
                 "e", "x", "i", "s", "t">>
TableRows ==
  { [at |-> "table_18", mode |-> "r"], [at |-> "table_19", mode |-> "w"],
    [at |-> "table_20", mode |-> "a"], [at |-> "table_21", mode |-> "x"],
    [at |-> "table_24", mode |-> "r+"] }
NameKey == PyStr(<<"n", "a", "m", "e">>)
AgeKey == PyStr(<<"a", "g", "e">>)
CityKey == PyStr(<<"c", "i", "t", "y">>)
Delhi == PyStr(<<"D", "e", "l", "h", "i">>)
AliceData ==
  PyDict(<< <<NameKey, PyStr(<<"A", "l", "i", "c", "e">>)>>,
            <<AgeKey, PyInt(25)>>,
            <<CityKey, Delhi>> >>)
BobText ==
  PyStr(<<"{", "\"", "n", "a", "m", "e", "\"", ":", " ", "\"", "B", "o", "b", "\"", ",", " ",
          "\"", "a", "g", "e", "\"", ":", " ", "3", "0", "}">>)

(***************************************************************************)
(* Running a snippet.                                                      *)
(***************************************************************************)
Files == <<f, f1, f2>>
Names == <<data, json_string, py_data, python_object, given, flag>>

\* an exception nobody catches ends the script
Raise(e) == pc' = "raised" /\ err' = e

\* a statement that raised e, or went on to next when e is "none"
Goto(e, next) == IF e = "none" THEN pc' = next /\ err' = err ELSE Raise(e)

\* a snippet is started as a script
Run(name, first) ==
  /\ pc = "idle"
  /\ script' = name
  /\ pc' = first
  /\ UNCHANGED <<fs, Files, data, json_string, py_data, python_object, given, flag, out, err>>

\* the script is over: the interpreter closes the file objects still open
\* on its way out, and the next script starts from fresh variables
Exit ==
  /\ pc \in {"done", "raised"}
  /\ fs' = Flush(Flush(Flush(fs, f), f1), f2)
  /\ pc' = "idle" /\ script' = "none"
  /\ f' = NoFile /\ f1' = NoFile /\ f2' = NoFile
  /\ data' = None /\ json_string' = None /\ py_data' = None
  /\ python_object' = None /\ given' = None
  /\ flag' = FALSE /\ out' = <<>> /\ err' = "none"

\* f = open(name, mode), also as the head of a with statement
OpenStmt(at, name, mode, next) ==
  /\ pc = at
  /\ LET r == Open(fs, name, mode)
     IN /\ fs' = r.fs
        /\ f' = r.h
        /\ Goto(r.err, next)
  /\ UNCHANGED <<f1, f2, Names, script, out>>

\* f.close(), and the end of a with block on f
CloseStmt(at, next) ==
  /\ pc = at
  /\ \E ok \in BOOLEAN :
       LET r == Close(fs, f, ok)
       IN /\ fs' = r.fs
          /\ f' = r.h
          /\ Goto(r.err, next)
  /\ UNCHANGED <<f1, f2, Names, script, out>>

\* print(<a read of f>)
PrintRead(at, r, next) ==
  /\ pc = at
  /\ f' = r.h
  /\ out' = IF r.err = "none" THEN Append(out, r.val) ELSE out
  /\ Goto(r.err, next)
  /\ UNCHANGED <<fs, f1, f2, Names, script>>

\* f.write(s)
WriteStmt(at, s, next) ==
  /\ pc = at
  /\ f' = Write(f, PyStr(s))
  /\ pc' = next
  /\ UNCHANGED <<fs, f1, f2, Names, script, out, err>>

\* print(v)
PrintStmt(at, v, next) ==
  /\ pc = at
  /\ out' = Append(out, v)
  /\ pc' = next
  /\ UNCHANGED <<fs, Files, Names, script, err>>

\* an exception that leaves the with block without __exit__
UnwindLeavesOpen(h) == h

\* an exception on its way out of a with block on h: __exit__ closes h
Unwind(h) == Close(fs, h, TRUE).h

(***************************************************************************)
(* 2. File Modes: the example call of a row of the table.                  *)
(***************************************************************************)
RunTable == \E row \in TableRows : Run("table", row.at)
TableOpen == \E row \in TableRows : OpenStmt(row.at, TableFile, row.mode, "done")

(***************************************************************************)
(* 3(a) Open a File.                                                       *)
(***************************************************************************)
RunOpen == Run("open", "open_33")
Open33 == OpenStmt("open_33", MyFile, "r", "done")

(***************************************************************************)
(* 3(b) Read a File.                                                       *)
(***************************************************************************)
RunRead == Run("read", "read_39")
Read39 == OpenStmt("read_39", MyFile, "r", "read_40")
Read40 == PrintRead("read_40", ReadText(fs, f, -1), "read_41")
Read41 == PrintRead("read_41", ReadLine(fs, f), "read_42")
Read42 == PrintRead("read_42", ReadLines(fs, f), "read_43")
Read43 == CloseStmt("read_43", "done")

(***************************************************************************)
(* 3(c) Write to File.                                                     *)
(***************************************************************************)
RunWrite == Run("write", "write_49")
Write49 == OpenStmt("write_49", MyFile, "w", "write_50")
Write50 == WriteStmt("write_50", HelloLine, "write_51")
Write51 == WriteStmt("write_51", EasyLine, "write_52")
Write52 == CloseStmt("write_52", "done")

(***************************************************************************)
(* 3(d) Append to File.                                                    *)
(***************************************************************************)
RunAppend ==
  /\ MyFile \in DOMAIN fs => Len(fs[MyFile]) <= MaxSize
  /\ Run("append", "append_58")
Append58 == OpenStmt("append_58", MyFile, "a", "append_59")
Append59 == WriteStmt("append_59", AppendedLine, "append_60")
Append60 == CloseStmt("append_60", "done")

(***************************************************************************)
(* 4. Using with.                                                          *)
(***************************************************************************)
RunWith == Run("with", "with_71")

\* with open("myfile.txt", "r") as f:
With71 == OpenStmt("with_71", MyFile, "r", "with_72")

\* data = f.read()
With72 ==
  /\ pc = "with_72"
  /\ LET r == ReadText(fs, f, -1)
     IN /\ data' = IF r.err = "none" THEN r.val ELSE data
        /\ f' = IF r.err = "none" THEN r.h ELSE Unwind(f)
        /\ Goto(r.err, "with_73")
  /\ UNCHANGED <<fs, f1, f2, json_string, py_data, python_object, given, flag, script, out>>

\* print(data)
With73 == PrintStmt("with_73", data, "with_74")

\* the end of the block
With74 == CloseStmt("with_74", "done")

(***************************************************************************)
(* 5. Check & Delete File.                                                 *)
(***************************************************************************)
\* an existence check that always says yes
ExistsAlways(disk, name) == TRUE

\* os.path.exists(name)
Exists(disk, name) == name \in DOMAIN disk

\* os.remove(name)
Remove(disk, name) ==
  IF name \in DOMAIN disk
  THEN [fs |-> [n \in DOMAIN disk \ {name} |-> disk[n]], err |-> "none"]
  ELSE [fs |-> disk, err |-> "FileNotFoundError"]

RunDelete == Run("delete", "delete_83")

\* if os.path.exists("myfile.txt"):
Delete83 ==
  /\ pc = "delete_83"
  /\ flag' = Exists(fs, MyFile)
  /\ pc' = IF Exists(fs, MyFile) THEN "delete_84" ELSE "delete_87"
  /\ UNCHANGED <<fs, Files, data, json_string, py_data, python_object, given, script, out, err>>

\* print("File exists")
Delete84 == PrintStmt("delete_84", PyStr(ExistsText), "delete_85")

\* os.remove("myfile.txt")
Delete85 ==
  /\ pc = "delete_85"
  /\ LET r == Remove(fs, MyFile)
     IN /\ fs' = r.fs
        /\ Goto(r.err, "done")
  /\ UNCHANGED <<Files, Names, script, out>>

\* print("File does not exist")
Delete87 == PrintStmt("delete_87", PyStr(MissingText), "done")

(***************************************************************************)
(* 6. File Pointer.                                                        *)
(***************************************************************************)
RunPointer == Run("pointer", "pointer_98")
Pointer98 == OpenStmt("pointer_98", MyFile, "r", "pointer_99")
Pointer99 == PrintRead("pointer_99", ReadText(fs, f, 5), "pointer_100")

\* print(f.tell())
Pointer100 == PrintStmt("pointer_100", PyInt(Tell(f)), "pointer_101")

\* f.seek(0)
Pointer101 ==
  /\ pc = "pointer_101"
  /\ f' = Seek(f, 0)
  /\ pc' = "pointer_102"
  /\ UNCHANGED <<fs, f1, f2, Names, script, out, err>>

Pointer102 == PrintRead("pointer_102", ReadText(fs, f, -1), "pointer_103")
Pointer103 == CloseStmt("pointer_103", "done")

(***************************************************************************)
(* 7. Binary Files: copy image.                                            *)
(***************************************************************************)
RunCopy == Run("copy", "copy_114")

\* with open("pic.jpg", "rb") as f1:
Copy114 ==
  /\ pc = "copy_114"
  /\ LET r == Open(fs, PicFile, "rb")
     IN /\ fs' = r.fs
        /\ f1' = r.h
        /\ Goto(r.err, "copy_115")
  /\ UNCHANGED <<f, f2, Names, script, out>>

\* with open("copy.jpg", "wb") as f2:
Copy115 ==
  /\ pc = "copy_115"
  /\ LET r == Open(fs, CopyFile, "wb")
     IN /\ fs' = r.fs
        /\ f2' = r.h
        /\ f1' = IF r.err = "none" THEN f1 ELSE Unwind(f1)
        /\ Goto(r.err, "copy_116")
  /\ UNCHANGED <<f, Names, script, out>>

\* f2.write(f1.read())
Copy116 ==
  /\ pc = "copy_116"
  /\ LET r == ReadBytes(fs, f1)
     IN /\ f1' = r.h
        /\ f2' = Write(f2, r.val)
  /\ pc' = "copy_117"
  /\ UNCHANGED <<fs, f, Names, script, out, err>>

\* the end of the inner block; an error there leaves the outer block too
Copy117 ==
  /\ pc = "copy_117"
  /\ \E ok \in BOOLEAN :
       LET r == Close(fs, f2, ok)
       IN /\ fs' = r.fs
          /\ f2' = r.h
          /\ f1' = IF r.err = "none" THEN f1 ELSE Unwind(f1)
          /\ Goto(r.err, "copy_118")
  /\ UNCHANGED <<f, Names, script, out>>

\* the end of the outer block
Copy118 ==
  /\ pc = "copy_118"
  /\ f1' = Close(fs, f1, TRUE).h
  /\ pc' = "done"
  /\ UNCHANGED <<fs, f, f2, Names, script, out, err>>

(***************************************************************************)
(* 8(b) Convert Python -> JSON.                                            *)
(***************************************************************************)
RunDump == Run("dump", "dump_138")

\* data = {"name": "Alice", "age": 25, "city": "Delhi"}
Dump138 ==
  /\ pc = "dump_138"
  /\ data' = AliceData
  /\ pc' = "dump_141"
  /\ UNCHANGED <<fs, Files, json_string, py_data, python_object, given, flag, script, out, err>>

\* json_string = json.dumps(data)
Dump141 ==
  /\ pc = "dump_141"
  /\ LET r == Dumps(data)
     IN /\ json_string' = IF r.err = "none" THEN r.val ELSE json_string
        /\ Goto(r.err, "dump_142")
  /\ UNCHANGED <<fs, Files, data, py_data, python_object, given, flag, script, out>>

\* print(json_string)
Dump142 == PrintStmt("dump_142", json_string, "dump_145")

\* with open("data.json", "w") as f:
Dump145 == OpenStmt("dump_145", JsonFile, "w", "dump_146")

\* json.dump(v, f), the statement of a with block on f
DumpStmt(at, v, next) ==
  /\ pc = at
  /\ LET r == Dumps(v)
     IN /\ f' = IF r.err = "none" THEN Write(f, r.val) ELSE Unwind(f)
        /\ Goto(r.err, next)
  /\ UNCHANGED <<fs, f1, f2, Names, script, out>>

\* json.dump(data, f)
Dump146 == DumpStmt("dump_146", data, "dump_147")

\* the end of the block
Dump147 == CloseStmt("dump_147", "done")

(***************************************************************************)
(* 8(c) Convert JSON -> Python.                                            *)
(***************************************************************************)
\* json.load(f): the text of the file, decoded
Load(disk, h) ==
  LET t == ReadText(disk, h, -1)
  IN IF t.err # "none" THEN t
     ELSE LET r == Loads(t.val) IN [err |-> r.err, val |-> r.val, h |-> t.h]

RunLoad == Run("load", "load_153")

\* json_string = '{"name": "Bob", "age": 30}'
Load153 ==
  /\ pc = "load_153"
  /\ json_string' = BobText
  /\ pc' = "load_154"
  /\ UNCHANGED <<fs, Files, data, py_data, python_object, given, flag, script, out, err>>

\* py_data = json.loads(json_string)
Load154 ==
  /\ pc = "load_154"
  /\ LET r == Loads(json_string)
     IN /\ py_data' = IF r.err = "none" THEN r.val ELSE py_data
        /\ Goto(r.err, "load_155")
  /\ UNCHANGED <<fs, Files, data, json_string, python_object, given, flag, script, out>>

\* print(py_data["name"])
Load155 ==
  /\ pc = "load_155"
  /\ LET r == Subscript(py_data, NameKey)
     IN /\ out' = IF r.err = "none" THEN Append(out, r.val) ELSE out
        /\ Goto(r.err, "load_158")
  /\ UNCHANGED <<fs, Files, Names, script>>

\* with open("data.json", "r") as f:
Load158 == OpenStmt("load_158", JsonFile, "r", "load_159")

\* data = json.load(f)
Load159 ==
  /\ pc = "load_159"
  /\ LET r == Load(fs, f)
     IN /\ data' = IF r.err = "none" THEN r.val ELSE data
        /\ f' = IF r.err = "none" THEN r.h ELSE Unwind(f)
        /\ Goto(r.err, "load_160")
  /\ UNCHANGED <<fs, f1, f2, json_string, py_data, python_object, given, flag, script, out>>

\* print(data["city"])
Load160 ==
  /\ pc = "load_160"
  /\ LET r == Subscript(data, CityKey)
     IN /\ out' = IF r.err = "none" THEN Append(out, r.val) ELSE out
        /\ f' = IF r.err = "none" THEN f ELSE Unwind(f)
        /\ Goto(r.err, "load_161")
  /\ UNCHANGED <<fs, f1, f2, Names, script>>

\* the end of the block
Load161 == CloseStmt("load_161", "done")

(***************************************************************************)
(* JSON Handling in Python, 2. and 3.: python_object to a string and to a  *)
(* file, and back from each.                                               *)
(***************************************************************************)
\* the values python_object is tried with
TestValues ==
  << AliceData,
     PyStr(<<"a", "\"", "\\", "\n", EAcute>>),
     PyList(<<PyInt(1), PyStr(<<"a">>), None, PyBool(TRUE), PyList(<<>>)>>),
     PyDict(<< <<PyStr(<<"k">>), PyList(<<PyDict(<<>>), PyInt(0 - 7)>>)>>,
               <<PyStr(<<>>), PyBool(FALSE)>> >>),
     PyInt(120),
     None,
     PyTuple(<<PyInt(1), PyInt(2)>>),
     PyDict(<< <<PyInt(1), PyStr(<<"a">>)>> >>),
     PyDict(<< <<PyStr(<<"t">>), PyTuple(<<>>)>> >>),
     PySet(<<PyInt(1)>>) >>

RunJson ==
  /\ pc = "idle"
  /\ script' = "json"
  /\ pc' = "json_246"
  /\ \E i \in 1..Len(TestValues) :
       /\ python_object' = TestValues[i]
       /\ given' = TestValues[i]
  /\ UNCHANGED <<fs, Files, data, json_string, py_data, flag, out, err>>

\* json_string = json.dumps(python_object)
Json246 ==
  /\ pc = "json_246"
  /\ LET r == Dumps(python_object)
     IN /\ json_string' = IF r.err = "none" THEN r.val ELSE json_string
        /\ Goto(r.err, "json_252")
  /\ UNCHANGED <<fs, Files, data, py_data, python_object, given, flag, script, out>>

\* with open("data.json", "w") as f:
Json252 == OpenStmt("json_252", JsonFile, "w", "json_253")

\* json.dump(python_object, f)
Json253 == DumpStmt("json_253", python_object, "json_254")

\* the end of the block
Json254 == CloseStmt("json_254", "json_263")

\* python_object = json.loads(json_string)
Json263 ==
  /\ pc = "json_263"
  /\ LET r == Loads(json_string)
     IN /\ python_object' = IF r.err = "none" THEN r.val ELSE python_object
        /\ Goto(r.err, "json_269")
  /\ UNCHANGED <<fs, Files, data, json_string, py_data, given, flag, script, out>>

\* with open("data.json", "r") as f:
Json269 == OpenStmt("json_269", JsonFile, "r", "json_270")

\* python_object = json.load(f)
Json270 ==
  /\ pc = "json_270"
  /\ LET r == Load(fs, f)
     IN /\ python_object' = IF r.err = "none" THEN r.val ELSE python_object
        /\ f' = IF r.err = "none" THEN r.h ELSE Unwind(f)
        /\ Goto(r.err, "json_271")
  /\ UNCHANGED <<fs, f1, f2, data, json_string, py_data, given, flag, script, out>>

\* the end of the block
Json271 == CloseStmt("json_271", "done")

(***************************************************************************)
(* The disks the snippets start from, and the specifications: the file     *)
(* handling part (sections 2 to 6), the binary copy (7), the JSON part (8  *)
(* and JSON Handling in Python), and the snippets with a with block.       *)
(***************************************************************************)
TextBytes == {10, 97, 169, 195}
PicBytes == {0, 255}
JsonBytes == {32, 49, 91, 93}
WithBytes == {49, 195}

Contents(alphabet, n) == UNION {[1..k -> alphabet] : k \in 0..n}

InitNames ==
  /\ pc = "idle" /\ script = "none"
  /\ f = NoFile /\ f1 = NoFile /\ f2 = NoFile
  /\ data = None /\ json_string = None /\ py_data = None
  /\ python_object = None /\ given = None
  /\ flag = FALSE /\ out = <<>> /\ err = "none"

Init ==
  /\ \E names \in SUBSET {MyFile, TableFile} :
       \E c \in Contents(TextBytes, MaxLen) :
         fs = [n \in names |-> IF n = MyFile THEN c ELSE <<97>>]
  /\ InitNames

Next ==
  \/ RunTable \/ TableOpen
  \/ RunOpen \/ Open33
  \/ RunRead \/ Read39 \/ Read40 \/ Read41 \/ Read42 \/ Read43
  \/ RunWrite \/ Write49 \/ Write50 \/ Write51 \/ Write52
  \/ RunAppend \/ Append58 \/ Append59 \/ Append60
  \/ RunWith \/ With71 \/ With72 \/ With73 \/ With74
  \/ RunDelete \/ Delete83 \/ Delete84 \/ Delete85 \/ Delete87
  \/ RunPointer \/ Pointer98 \/ Pointer99 \/ Pointer100 \/ Pointer101
  \/ Pointer102 \/ Pointer103
  \/ Exit

Spec == Init /\ [][Next]_vars

InitCopy ==
  /\ \E names \in SUBSET {PicFile, CopyFile} :
       \E p \in Contents(PicBytes, MaxLen) :
         \E c \in Contents(PicBytes, MaxLen) :
           fs = [n \in names |-> IF n = PicFile THEN p ELSE c]
  /\ InitNames

NextCopy ==
  \/ RunCopy \/ Copy114 \/ Copy115 \/ Copy116 \/ Copy117 \/ Copy118
  \/ Exit

SpecCopy == InitCopy /\ [][NextCopy]_vars

InitJson ==
  /\ \E names \in SUBSET {JsonFile} :
       \E c \in Contents(JsonBytes, MaxLen) :
         fs = [n \in names |-> c]
  /\ InitNames

NextJson ==
  \/ RunDump \/ Dump138 \/ Dump141 \/ Dump142 \/ Dump145 \/ Dump146 \/ Dump147
  \/ RunLoad \/ Load153 \/ Load154 \/ Load155 \/ Load158 \/ Load159 \/ Load160
  \/ Load161
  \/ RunJson \/ Json246 \/ Json252 \/ Json253 \/ Json254 \/ Json263 \/ Json269
  \/ Json270 \/ Json271
  \/ Exit

SpecJson == InitJson /\ [][NextJson]_vars

InitWith ==
  /\ \E names \in SUBSET {MyFile, PicFile, CopyFile, JsonFile} :
       \E c \in Contents(WithBytes, MaxLen) :
         fs = [n \in names |-> c]
  /\ InitNames

NextWith ==
  \/ RunWith \/ With71 \/ With72 \/ With73 \/ With74
  \/ RunCopy \/ Copy114 \/ Copy115 \/ Copy116 \/ Copy117 \/ Copy118
  \/ RunDump \/ Dump138 \/ Dump141 \/ Dump142 \/ Dump145 \/ Dump146 \/ Dump147
  \/ RunLoad \/ Load153 \/ Load154 \/ Load155 \/ Load158 \/ Load159 \/ Load160
  \/ Load161
  \/ RunJson \/ Json246 \/ Json252 \/ Json253 \/ Json254 \/ Json263 \/ Json269
  \/ Json270 \/ Json271
  \/ Exit

SpecWith == InitWith /\ [][NextWith]_vars

(***************************************************************************)
(* The properties.                                                         *)
(***************************************************************************)
IsOpen(h) == h.st = "open"
Over == pc \in {"done", "raised"}

\* C1: once a with block is left, by its last statement or by an exception
\* raised inside it, the file object it bound is closed, without a call of
\* f.close() (SpecWith: the five snippets with a with block)
WithClosesFile ==
  /\ (script \in {"with", "dump", "load"} /\ Over) => ~IsOpen(f)
  /\ (script = "copy" /\ (Over \/ pc = "copy_118")) => ~IsOpen(f2)
  /\ (script = "copy" /\ Over) => ~IsOpen(f1)
  /\ (script = "json" /\ (Over \/ pc \in {"json_263", "json_269"})) => ~IsOpen(f)

\* an exception raised inside the block of section 4 has left it
WithLeftByError ==
  /\ script = "with" /\ pc = "raised" /\ err = "UnicodeDecodeError"
  /\ f.st = "closed"

\* C2: open(name, "r") of a name that does not exist raises
\* FileNotFoundError: nothing is bound to a file object, no file is created
\* and the disk is as it was
OpenReadMissingFails ==
  [][(pc \in {"open_33", "read_39", "with_71", "pointer_98"} /\ MyFile \notin DOMAIN fs)
       => (pc' = "raised" /\ err' = "FileNotFoundError" /\ f' = NoFile /\ fs' = fs)]_vars

OpenReadMissingSeen ==
  /\ script = "open" /\ pc = "raised" /\ err = "FileNotFoundError"
  /\ MyFile \notin DOMAIN fs /\ TableFile \in DOMAIN fs

\* C3: open(name, "x") creates an empty file when there is none of that name
\* and raises FileExistsError when there is one, whose content it leaves as it
\* is, where open(name, "w") empties it
OpenExclusiveCreatesOrFails ==
  [][/\ (pc = "table_21" /\ TableFile \notin DOMAIN fs)
          => (pc' = "done" /\ IsOpen(f') /\ fs' = Put(fs, TableFile, <<>>))
     /\ (pc = "table_21" /\ TableFile \in DOMAIN fs)
          => (pc' = "raised" /\ err' = "FileExistsError" /\ f' = NoFile /\ fs' = fs)
     /\ (pc = "table_19" /\ TableFile \in DOMAIN fs)
          => (pc' = "done" /\ fs' = [fs EXCEPT ![TableFile] = <<>>])]_vars

OpenExclusiveRefused ==
  /\ script = "table" /\ pc = "raised" /\ err = "FileExistsError"
  /\ fs[TableFile] = <<97>>

\* C4: when the write snippet has run to its end, myfile.txt exists and holds
\* the two written strings one after the other and nothing else, whatever it
\* held before and whether it existed
WriteReplacesContent ==
  (script = "write" /\ pc = "done")
    => /\ MyFile \in DOMAIN fs
       /\ DecodeChunk(fs[MyFile]) = [chars |-> HelloLine \o EasyLine, end |-> "clean"]

WriteDone == script = "write" /\ pc = "done" /\ f.st = "closed"

\* C5: the append snippet on an existing myfile.txt never changes a byte the
\* file already held, and when it has run to its end the file holds what it
\* held before followed by the written string
AppendKeepsContent ==
  [][(pc \in {"append_58", "append_59", "append_60"} /\ MyFile \in DOMAIN fs)
       => /\ MyFile \in DOMAIN fs'
          /\ Len(fs'[MyFile]) >= Len(fs[MyFile])
          /\ SubSeq(fs'[MyFile], 1, Len(fs[MyFile])) = fs[MyFile]
          /\ pc' = "done" => fs'[MyFile] = fs[MyFile] \o Encode(AppendedLine)
          /\ pc' # "done" => fs' = fs]_vars

AppendDone ==
  /\ script = "append" /\ pc = "done"
  /\ Len(fs[MyFile]) > Len(AppendedLine)

\* a == b in Python
RECURSIVE PyEq(_, _)
PyEq(a, b) ==
  LET num(v) == IF Tag(v) = "bool" THEN (IF v[2] THEN 1 ELSE 0) ELSE v[2]
  IN IF Tag(a) \in {"int", "bool"} /\ Tag(b) \in {"int", "bool"} THEN num(a) = num(b)
     ELSE IF Tag(a) # Tag(b) THEN FALSE
     ELSE IF Tag(a) = "None" THEN TRUE
     ELSE IF Tag(a) = "str" THEN a[2] = b[2]
     ELSE IF Tag(a) \in {"list", "tuple"}
          THEN /\ Len(a[2]) = Len(b[2])
               /\ \A i \in 1..Len(a[2]) : PyEq(a[2][i], b[2][i])
     ELSE IF Tag(a) = "dict"
          THEN /\ Len(a[2]) = Len(b[2])
               /\ \A i \in 1..Len(a[2]) : \E j \in 1..Len(b[2]) :
                    PyEq(a[2][i][1], b[2][j][1]) /\ PyEq(a[2][i][2], b[2][j][2])
     ELSE FALSE

\* v is made of dicts with str keys, lists, strs, ints, bools and None
RECURSIVE JsonNative(_)
JsonNative(v) ==
  IF Tag(v) \in {"str", "int", "bool", "None"} THEN TRUE
  ELSE IF Tag(v) = "list" THEN \A i \in 1..Len(v[2]) : JsonNative(v[2][i])
  ELSE IF Tag(v) = "dict"
       THEN \A i \in 1..Len(v[2]) : Tag(v[2][i][1]) = "str" /\ JsonNative(v[2][i][2])
  ELSE FALSE

\* the load snippet, run on the file the dump snippet leaves, prints Delhi
LoadPrintsDelhi ==
  (script = "load" /\ pc = "load_161" /\ fs[JsonFile] = Encode(DumpsText(AliceData)))
    => out[Len(out)] = Delhi

\* C6 as stated: python_object comes back equal from json.dumps then
\* json.loads, and from json.dump to data.json then json.load, whatever
\* value it is
JsonRoundTrip ==
  /\ (script = "json" /\ pc \in {"json_269", "json_270", "json_271", "done"})
       => PyEq(python_object, given)
  /\ LoadPrintsDelhi

\* C6, amended: a python_object made of dicts with str keys, lists, strs,
\* ints, bools and None is serialized without an error, comes back equal
\* from json.dumps then json.loads and from json.dump to data.json then
\* json.load, and the load snippet prints Delhi after the dump snippet
JsonNativeRoundTrip ==
  /\ (script = "json" /\ JsonNative(given)
        /\ pc \in {"json_269", "json_270", "json_271", "done"})
       => PyEq(python_object, given)
  /\ (script = "json" /\ JsonNative(given) /\ pc = "raised") => err = "OSError"
  /\ LoadPrintsDelhi

JsonFileRoundTripDone ==
  /\ script = "json" /\ pc = "json_271"
  /\ given = TestValues[4] /\ python_object = given

\* C7: when the copy snippet has run to its end copy.jpg holds the bytes of
\* pic.jpg, whatever it held before, and both file objects are closed; no
\* step of the snippet changes pic.jpg
CopyIsExact ==
  [][/\ (script' = "copy" /\ pc' = "done")
          => /\ CopyFile \in DOMAIN fs' /\ PicFile \in DOMAIN fs'
             /\ fs'[CopyFile] = fs'[PicFile]
             /\ f1'.st = "closed" /\ f2'.st = "closed"
     /\ (script = "copy" /\ PicFile \in DOMAIN fs)
          => (PicFile \in DOMAIN fs' /\ fs'[PicFile] = fs[PicFile])]_vars

CopyDone ==
  /\ script = "copy" /\ pc = "done"
  /\ Len(fs[PicFile]) = MaxLen /\ fs[CopyFile] = fs[PicFile]

\* C8: the three prints of the read snippet show the whole content of the
\* file, then a line of the file, then the list of all its lines
ReadPrintsAllThree ==
  (script = "read" /\ pc = "read_43")
    => LET d == DecodeChunk(fs[MyFile]).chars
       IN /\ out[1] = PyStr(d)
          /\ d = <<>> \/ \E i \in 1..Len(SplitLines(d)) : out[2] = SplitLines(d)[i]
          /\ out[3] = PyList(SplitLines(d))

\* what the file pointer snippet has printed is as C9 says but for f.tell()
PointerReads(disk, o, at) ==
  LET d == DecodeChunk(disk[MyFile])
      k == IF Len(d.chars) < 5 THEN Len(d.chars) ELSE 5
  IN /\ at \in {"pointer_100", "pointer_101", "pointer_102", "pointer_103", "done"}
          => o[1] = PyStr(SubSeq(d.chars, 1, k))
     /\ at \in {"pointer_103", "done"}
          => d.end = "clean" /\ o[3] = PyStr(d.chars)

\* f.tell() is 5, or the length of a shorter file (in characters or bytes)
TellCountsChars(disk, o) ==
  LET n == Len(DecodeChunk(disk[MyFile]).chars)
  IN IF n >= 5 THEN o[2] = PyInt(5)
     ELSE o[2] = PyInt(n) \/ o[2] = PyInt(Len(disk[MyFile]))

\* f.tell() is the number of bytes that hold the characters read, which is
\* their number when none of them takes two bytes
TellCountsBytes(disk, o) ==
  /\ DecodeChunk(SubSeq(disk[MyFile], 1, o[2][2])) = [chars |-> o[1][2], end |-> "clean"]
  /\ (\A i \in 1..Len(o[1][2]) : o[1][2][i] # EAcute) => o[2] = PyInt(Len(o[1][2]))

PointerTold == {"pointer_101", "pointer_102", "pointer_103", "done"}

\* C9 as stated: after f.read(5) f.tell() is 5, or the file length if
\* shorter; after f.seek(0) f.read() returns the whole content; seek and tell
\* leave the disk as it is
PointerTellIsFive ==
  [][/\ script' = "pointer" => PointerReads(fs', out', pc')
     /\ (script' = "pointer" /\ pc' \in PointerTold) => TellCountsChars(fs', out')
     /\ pc \in {"pointer_100", "pointer_101"} => fs' = fs]_vars

\* C9, amended: after f.read(5) f.tell() is the byte offset just past the
\* characters read, which is their number (5, or that of a shorter file)
\* when each of them is one byte long; after f.seek(0) f.read() returns the
\* whole content; seek and tell leave the disk as it is
PointerTellIsByteOffset ==
  [][/\ script' = "pointer" => PointerReads(fs', out', pc')
     /\ (script' = "pointer" /\ pc' \in PointerTold) => TellCountsBytes(fs', out')
     /\ pc \in {"pointer_100", "pointer_101"} => fs' = fs]_vars

PointerRereadDone ==
  /\ script = "pointer" /\ pc = "pointer_103"
  /\ out[2] = PyInt(6) /\ Len(out[1][2]) = 5 /\ Len(out[3][2]) > 5

\* C10: the check-and-delete snippet reaches os.remove only when
\* os.path.exists returned True, never ends in an exception, leaves no
\* myfile.txt behind and touches no other file
DeleteIsSafe ==
  [][script' = "delete"
       => /\ pc' # "raised" /\ err' = "none"
          /\ pc' = "delete_85" => (flag' /\ MyFile \in DOMAIN fs')
          /\ pc' = "done" => MyFile \notin DOMAIN fs'
          /\ \A n \in (DOMAIN fs \cup DOMAIN fs') \ {MyFile} :
               n \in DOMAIN fs /\ n \in DOMAIN fs' /\ fs'[n] = fs[n]]_vars

DeleteRemoved ==
  /\ script = "delete" /\ pc = "done" /\ flag
  /\ TableFile \in DOMAIN fs

====
